---- MODULE Spec2Model ----
(***************************************************************************)
(* PyFOPPL: the Clojure renderer of the AST (pyppl/ppl_clojure_repr.py)    *)
(* and the catalog of distributions with its shape inference               *)
(* (foppl/distributions.py).                                               *)
(*                                                                         *)
(* Python strings are TLA+ strings; Python's None is the empty sequence    *)
(* <<>> where a value is optional (<<v>> when it is given), the node       *)
(* NoneNode where an AST child is absent.                                  *)
(***************************************************************************)
EXTENDS FiniteSets, Integers, Sequences, TLC

VARIABLES ast, arg, rendered, res

vars == <<ast, arg, rendered, res>>

(***************************************************************************)
(* Bounds of the model.                                                    *)
(***************************************************************************)
\* number of times dump() is called on the same tree
MaxRenders == 2
\* integer literals 0..MaxInt appear in the trees
MaxInt == 2
\* argument lists of sample_type / support_size have at most MaxArgs items
MaxArgs == 2
\* sequence types have sizes 1..MaxSize, or an unknown size
MaxSize == 2
\* literal lists, vectors and data tables have 0..MaxLen items
MaxLen == 3

(***************************************************************************)
(* Python's string operations.                                             *)
(***************************************************************************)
RECURSIVE Spaces(_)
\* ' ' * n
Spaces(n) == IF n <= 0 THEN "" ELSE " " \o Spaces(n - 1)

RECURSIVE Replace(_, _, _)
\* s.replace(c, by) for a one-character c
Replace(s, c, by) ==
    IF s = "" THEN ""
    ELSE (IF SubSeq(s, 1, 1) = c THEN by ELSE SubSeq(s, 1, 1))
         \o Replace(Tail(s), c, by)

RECURSIVE Join(_, _)
\* sep.join(items)
Join(items, sep) ==
    IF items = <<>> THEN ""
    ELSE IF Len(items) = 1 THEN items[1]
    ELSE items[1] \o sep \o Join(Tail(items), sep)

\* sub in s
Contains(s, sub) ==
    \E i \in 1..(Len(s) + 1) :
        /\ i + Len(sub) - 1 <= Len(s)
        /\ SubSeq(s, i, i + Len(sub) - 1) = sub

Digits == "0123456789"

RECURSIVE NatRepr(_)
NatRepr(n) ==
    IF n < 10 THEN SubSeq(Digits, n + 1, n + 1)
    ELSE NatRepr(n \div 10) \o SubSeq(Digits, (n % 10) + 1, (n % 10) + 1)

\* repr(n) of a Python int
IntRepr(n) == IF n < 0 THEN "-" \o NatRepr(-n) ELSE NatRepr(n)

(***************************************************************************)
(* The AST nodes (ppl_ast), with the fields the renderer reads.            *)
(***************************************************************************)
NoneNode == [kind |-> "None"]
AstSymbol(name) == [kind |-> "Symbol", name |-> name]
AstValue(value) == [kind |-> "Value", value |-> value]
AstBreak == [kind |-> "Break"]
AstAttribute(base, attr) == [kind |-> "Attribute", base |-> base, attr |-> attr]
AstBinary(left, op, right) ==
    [kind |-> "Binary", left |-> left, op |-> op, right |-> right]
AstUnary(op, item) == [kind |-> "Unary", op |-> op, item |-> item]
AstBody(items) == [kind |-> "Body", items |-> items]
\* keyword_args is the dict in its stored order: pairs <<key, str(value)>>
AstCall(function, args, keyword_args) ==
    [kind |-> "Call", function |-> function, args |-> args,
     keyword_args |-> keyword_args]
\* second_op is <<>> (None) or <<op>>; second_right is NoneNode or a node
AstCompare(left, op, right, second_op, second_right) ==
    [kind |-> "Compare", left |-> left, op |-> op, right |-> right,
     second_op |-> second_op, second_right |-> second_right]
AstDef(name, value) == [kind |-> "Def", name |-> name, value |-> value]
AstFor(target, source, body) ==
    [kind |-> "For", target |-> target, source |-> source, body |-> body]
\* parameters is a list of strings; vararg is <<>> (None) or <<name>>
AstFunction(parameters, vararg, body) ==
    [kind |-> "Function", parameters |-> parameters, vararg |-> vararg,
     body |-> body]
AstIf(test, if_node, else_node) ==
    [kind |-> "If", test |-> test, if_node |-> if_node, else_node |-> else_node]
\* alias is <<>> (None) or <<name>>; imported_names is <<>> (None) or <<list>>
AstImport(module_name, imported_names, alias) ==
    [kind |-> "Import", module_name |-> module_name,
     imported_names |-> imported_names, alias |-> alias]
AstLet(targets, sources, body) ==
    [kind |-> "Let", targets |-> targets, sources |-> sources, body |-> body]
AstListFor(target, source, expr) ==
    [kind |-> "ListFor", target |-> target, source |-> source, expr |-> expr]
AstObserve(dist, value) == [kind |-> "Observe", dist |-> dist, value |-> value]
AstReturn(value) == [kind |-> "Return", value |-> value]
AstSample(dist) == [kind |-> "Sample", dist |-> dist]
AstSlice(base, start, stop) ==
    [kind |-> "Slice", base |-> base, start |-> start, stop |-> stop]
AstSubscript(base, index) ==
    [kind |-> "Subscript", base |-> base, index |-> index]
\* items is a list of int literals
AstValueVector(items) == [kind |-> "ValueVector", items |-> items]
AstVector(items) == [kind |-> "Vector", items |-> items]
AstWhile(test, body) == [kind |-> "While", test |-> test, body |-> body]

\* a target name: a str, a tuple of str, or anything else (here an int)
StrName(s) == [t |-> "str", s |-> s]
TupleName(items) == [t |-> "tuple", items |-> items]
IntName(i) == [t |-> "int", i |-> i]

\* AstSlice.start_as_int: the lower bound's integer when it is a literal
\* integer, None (<<>>) otherwise
start_as_int(node) ==
    IF node.start.kind = "Value" THEN <<node.start.value>> ELSE <<>>

(***************************************************************************)
(* ClojureRepr.  A visit returns what the method returns (none: it is      *)
(* None; text: str() of it) and the node as the call leaves it.            *)
(***************************************************************************)
Str(text, node) == [none |-> FALSE, text |-> text, node |-> node]
None(node) == [none |-> TRUE, text |-> "None", node |-> node]

RECURSIVE visit(_)

visit_indent(node, indent) ==
    LET result == visit(node)
    IN  IF ~result.none
        THEN Str(Replace(result.text, "\n", "\n" \o Spaces(indent)), result.node)
        ELSE result

visit_name(name) ==
    IF name.t = "str" THEN name.s
    ELSE IF name.t = "tuple" THEN "[" \o Join(name.items, ", ") \o "]"
    ELSE IntRepr(name.i)

visit_attribute(node) ==
    LET base == visit(node.base)
    IN  Str("(. " \o base.text \o " " \o node.attr \o ")",
            [node EXCEPT !.base = base.node])

visit_binary(node) ==
    LET left == visit(node.left)
        right == visit(node.right)
    IN  Str("(" \o node.op \o " " \o left.text \o " " \o right.text \o ")",
            [node EXCEPT !.left = left.node, !.right = right.node])

visit_body(node) ==
    LET items == [i \in 1..Len(node.items) |-> visit_indent(node.items[i], 2)]
    IN  Str("(do\n  "
              \o Join([i \in 1..Len(items) |-> items[i].text], "\n  ") \o ")",
            [node EXCEPT !.items = [i \in 1..Len(items) |-> items[i].node]])

visit_break(node) == Str("(break)", node)

visit_call(node) ==
    LET function == visit(node.function)
        items == [i \in 1..Len(node.args) |-> visit(node.args[i])]
        kw_args == [i \in 1..Len(node.keyword_args) |->
                      ":" \o node.keyword_args[i][1] \o " "
                          \o node.keyword_args[i][2]]
        args == [i \in 1..Len(items) |-> items[i].text] \o kw_args
    IN  Str("(" \o function.text \o " " \o Join(args, " ") \o ")",
            [node EXCEPT !.function = function.node,
                         !.args = [i \in 1..Len(items) |-> items[i].node]])

\* visit_compare with the operators' equality test left out
visit_compare_always_and(node) ==
    LET left == visit(node.left)
        right == visit(node.right)
        third == visit(node.second_right)
        after == [node EXCEPT !.left = left.node, !.right = right.node,
                              !.second_right = third.node]
    IN  IF ~third.none
        THEN Str("(and (" \o node.op \o " " \o left.text \o " " \o right.text
                   \o ") (" \o node.second_op[1] \o " " \o right.text \o " "
                   \o third.text \o "))", after)
        ELSE Str("(" \o node.op \o " " \o left.text \o " " \o right.text \o ")",
                 after)

visit_compare(node) ==
    LET left == visit(node.left)
        right == visit(node.right)
        third == visit(node.second_right)
        after == [node EXCEPT !.left = left.node, !.right = right.node,
                              !.second_right = third.node]
    IN  IF node.second_right.kind # "None"
        THEN IF <<node.op>> = node.second_op
             THEN Str("(" \o node.op \o " " \o left.text \o " " \o right.text
                        \o " " \o third.text \o ")", after)
             ELSE Str("(and (" \o node.op \o " " \o left.text \o " "
                        \o right.text \o ") (" \o node.second_op[1] \o " "
                        \o right.text \o " " \o third.text \o "))", after)
        ELSE Str("(" \o node.op \o " " \o left.text \o " " \o right.text \o ")",
                 after)

visit_def(node) ==
    LET name == visit_name(node.name)
        value == visit_indent(node.value, 2)
        after == [node EXCEPT !.value = value.node]
    IN  IF ~Contains(value.text, "\n")
        THEN Str("(def " \o name \o " " \o value.text \o ")", after)
        ELSE Str("(def " \o name \o "\n  " \o value.text \o ")", after)

\* "(doseq [{}]\n  {})".format(target, source, body): the format string has
\* two fields, so str.format leaves its third argument out
visit_for(node) ==
    LET source == visit(node.source)
        body == visit_indent(node.body, 2)
    IN  Str("(doseq [" \o visit_name(node.target) \o "]\n  " \o source.text
              \o ")",
            [node EXCEPT !.source = source.node, !.body = body.node])

\* params is node.parameters itself, not a copy: append changes the node
visit_function(node) ==
    LET params == IF node.vararg # <<>>
                  THEN Append(node.parameters, "& " \o node.vararg[1])
                  ELSE node.parameters
        body == visit_indent(node.body, 2)
    IN  Str("(fn [" \o Join(params, " ") \o "]\n  " \o body.text \o ")",
            [node EXCEPT !.parameters = params, !.body = body.node])

visit_if(node) ==
    LET test == visit(node.test)
        body == visit_indent(node.if_node, 2)
        else_body == visit_indent(node.else_node, 2)
        after == [node EXCEPT !.test = test.node, !.if_node = body.node,
                              !.else_node = else_body.node]
    IN  IF ~else_body.none
        THEN Str("(if " \o test.text \o "\n  " \o body.text \o "\n  "
                   \o else_body.text \o ")", after)
        ELSE Str("(if " \o test.text \o "\n  " \o body.text \o ")", after)

visit_import(node) ==
    IF node.alias # <<>>
    THEN LET s == IF node.imported_names = <<>>
                  THEN ":as " \o node.alias[1]
                  ELSE "[" \o node.imported_names[1][1] \o " :as "
                         \o node.alias[1] \o "]"
         IN  Str("(require '" \o node.module_name \o " " \o s \o ")", node)
    ELSE IF node.imported_names # <<>>
    THEN IF node.imported_names[1] = <<"*">>
         THEN Str("(use '" \o node.module_name \o ")", node)
         ELSE Str("(require '" \o node.module_name \o " :refer ["
                    \o Join(node.imported_names[1], " ") \o "])", node)
    ELSE Str("(require '" \o node.module_name \o ")", node)

\* zip(targets, sources) stops at the shorter list
visit_let(node) ==
    LET n == IF Len(node.targets) < Len(node.sources)
             THEN Len(node.targets) ELSE Len(node.sources)
        sources == [i \in 1..n |-> visit_indent(node.sources[i], 6)]
        bindings == [i \in 1..n |->
                       visit_name(node.targets[i]) \o " " \o sources[i].text]
        body == visit_indent(node.body, 2)
    IN  Str("(let [" \o Join(bindings, "\n      ") \o "]\n  " \o body.text
              \o ")",
            [node EXCEPT !.sources = [i \in 1..Len(node.sources) |->
                                        IF i <= n THEN sources[i].node
                                        ELSE node.sources[i]],
                         !.body = body.node])

\* "(for {}\n  {})".format(target, source, body): two fields, three arguments
visit_list_for(node) ==
    LET source == visit(node.source)
        body == visit_indent(node.expr, 2)
    IN  Str("(for " \o visit_name(node.target) \o "\n  " \o source.text \o ")",
            [node EXCEPT !.source = source.node, !.expr = body.node])

visit_observe(node) ==
    LET dist == visit(node.dist)
        value == visit(node.value)
    IN  Str("(observe " \o dist.text \o " " \o value.text \o ")",
            [node EXCEPT !.dist = dist.node, !.value = value.node])

visit_return(node) ==
    LET value == visit(node.value)
    IN  Str("(return " \o value.text \o ")", [node EXCEPT !.value = value.node])

visit_sample(node) ==
    LET dist == visit(node.dist)
    IN  Str("(sample " \o dist.text \o ")", [node EXCEPT !.dist = dist.node])

visit_slice(node) ==
    LET sequence == visit(node.base)
        start == visit(node.start)
        stop == visit(node.stop)
        after == [node EXCEPT !.base = sequence.node, !.start = start.node,
                              !.stop = stop.node]
    IN  IF stop.none
        THEN IF start_as_int(node) = <<1>>
             THEN Str("(rest " \o sequence.text \o ")", after)
             ELSE Str("(drop " \o sequence.text \o " " \o start.text \o ")",
                      after)
        ELSE IF start.none
        THEN Str("(take " \o sequence.text \o " " \o stop.text \o ")", after)
        ELSE Str("(subvec " \o sequence.text \o " " \o start.text \o " "
                   \o stop.text \o ")", after)

visit_subscript(node) ==
    LET sequence == visit(node.base)
        index == visit(node.index)
    IN  Str("(get " \o sequence.text \o " " \o index.text \o ")",
            [node EXCEPT !.base = sequence.node, !.index = index.node])

visit_symbol(node) == Str(node.name, node)

visit_unary(node) ==
    LET item == visit(node.item)
    IN  Str("(" \o node.op \o " " \o item.text \o ")",
            [node EXCEPT !.item = item.node])

\* repr(node) of an AstValue is the repr of its literal
visit_value(node) == Str(IntRepr(node.value), node)

visit_value_vector(node) ==
    Str("[" \o Join([i \in 1..Len(node.items) |-> IntRepr(node.items[i])], " ")
          \o "]", node)

visit_vector(node) ==
    LET items == [i \in 1..Len(node.items) |-> visit(node.items[i])]
    IN  Str("[" \o Join([i \in 1..Len(items) |-> items[i].text], " ") \o "]",
            [node EXCEPT !.items = [i \in 1..Len(items) |-> items[i].node]])

visit_while(node) ==
    LET test == visit(node.test)
        body == visit_indent(node.body, 2)
    IN  Str("(while " \o test.text \o "\n  " \o body.text \o ")",
            [node EXCEPT !.test = test.node, !.body = body.node])

\* Visitor.visit: None for None, the node kind's method otherwise
visit(node) ==
    CASE node.kind = "None" -> None(node)
      [] node.kind = "Attribute" -> visit_attribute(node)
      [] node.kind = "Binary" -> visit_binary(node)
      [] node.kind = "Body" -> visit_body(node)
      [] node.kind = "Break" -> visit_break(node)
      [] node.kind = "Call" -> visit_call(node)
      [] node.kind = "Compare" -> visit_compare(node)
      [] node.kind = "Def" -> visit_def(node)
      [] node.kind = "For" -> visit_for(node)
      [] node.kind = "Function" -> visit_function(node)
      [] node.kind = "If" -> visit_if(node)
      [] node.kind = "Import" -> visit_import(node)
      [] node.kind = "Let" -> visit_let(node)
      [] node.kind = "ListFor" -> visit_list_for(node)
      [] node.kind = "Observe" -> visit_observe(node)
      [] node.kind = "Return" -> visit_return(node)
      [] node.kind = "Sample" -> visit_sample(node)
      [] node.kind = "Slice" -> visit_slice(node)
      [] node.kind = "Subscript" -> visit_subscript(node)
      [] node.kind = "Symbol" -> visit_symbol(node)
      [] node.kind = "Unary" -> visit_unary(node)
      [] node.kind = "Value" -> visit_value(node)
      [] node.kind = "ValueVector" -> visit_value_vector(node)
      [] node.kind = "Vector" -> visit_vector(node)
      [] node.kind = "While" -> visit_while(node)

\* dump(ast) == ClojureRepr().visit(ast)
dump(node) == visit(node)

(***************************************************************************)
(* The trees handed to dump().                                             *)
(***************************************************************************)
Names == {"xs", "n"}
Ops == {"<", "<="}
Syms == {AstSymbol(s) : s \in Names}
Lits == {AstValue(v) : v \in (0..MaxInt) \cup {-1, 10}}
Atoms == Syms \cup Lits
Targets == {StrName("i"), TupleName(<<"i", "j">>), IntName(0)}

Compares ==
    {AstCompare(l, op, r, <<>>, NoneNode) : l \in Syms, op \in Ops, r \in Atoms}
    \cup {AstCompare(c.left, c.op, c.right, <<op2>>, t) :
            c \in {AstCompare(l, op, r, <<>>, NoneNode) :
                     l \in Syms, op \in Ops, r \in Atoms},
            op2 \in Ops, t \in Atoms}

Slices ==
    {AstSlice(b, s, e) : b \in Syms, s \in {NoneNode} \cup Atoms,
                         e \in {NoneNode} \cup Atoms}

Stmts ==
    { AstBreak,
      AstReturn(AstSymbol("n")),
      AstBody(<<AstBreak, AstReturn(AstValue(1))>>),
      AstIf(AstSymbol("n"), AstBreak, NoneNode),
      AstIf(AstCompare(AstSymbol("n"), "<", AstValue(1), <<>>, NoneNode),
            AstBody(<<AstReturn(AstValue(0)), AstBreak>>),
            AstReturn(AstSymbol("xs"))),
      AstWhile(AstUnary("not", AstSymbol("n")), AstBreak),
      AstDef(StrName("y"), AstBinary(AstSymbol("n"), "+", AstValue(1))),
      AstObserve(AstSample(AstAttribute(AstSymbol("xs"), "d")),
                 AstSubscript(AstSymbol("xs"), AstValue(0))),
      AstCall(AstSymbol("f"), <<AstSymbol("n"), AstValue(1)>>, <<>>),
      AstCall(AstSymbol("f"), <<AstSymbol("n")>>, <<<<"k", "1">>>>),
      AstLet(<<StrName("y"), StrName("z")>>,
             <<AstBody(<<AstBreak, AstSymbol("n")>>), AstValueVector(<<1, 10>>)>>,
             AstFunction(<<"x">>, <<"args">>, AstSymbol("y"))),
      AstImport("m", <<>>, <<>>),
      AstImport("m", <<>>, <<"a">>),
      AstImport("m", <<<<"f", "g">>>>, <<"a">>),
      AstImport("m", <<<<"*">>>>, <<>>),
      AstImport("m", <<<<"f", "g">>>>, <<>>) }

Functions ==
    {AstFunction(p, v, b) : p \in {<<>>, <<"x">>, <<"x", "y">>},
                            v \in {<<>>, <<"args">>}, b \in Stmts}

LoopBodies ==
    Stmts \cup Atoms
    \cup {AstFunction(<<"x">>, v, AstBreak) : v \in {<<>>, <<"args">>}}
    \cup {AstVector(<<AstSymbol("n"), AstValue(1)>>)}

Sources == Syms \cup {AstSlice(AstSymbol("xs"), AstValue(1), NoneNode)}

Fors == {AstFor(t, s, b) : t \in Targets, s \in Sources, b \in LoopBodies}

ListFors == {AstListFor(t, s, b) : t \in Targets, s \in Sources, b \in LoopBodies}

Trees == Compares \cup Slices \cup Stmts \cup Functions \cup Fors \cup ListFors

(***************************************************************************)
(* The types of code_types, as distributions.py uses them: instances of    *)
(* AnyType, IntegerType, FloatType, and sequence types with an item_type   *)
(* and a size (<<>>: unknown).  ListType is a subclass of SequenceType.    *)
(***************************************************************************)
AnyType == [tag |-> "AnyType"]
IntegerType == [tag |-> "IntegerType"]
FloatType == [tag |-> "FloatType"]
\* the class IntegerType itself, which is not an instance of a type
IntegerTypeClass == [tag |-> "class IntegerType"]
SequenceType(item_type, size) ==
    [tag |-> "SequenceType", item_type |-> item_type, size |-> size]
ListType(item_type, size) ==
    [tag |-> "ListType", item_type |-> item_type, size |-> size]

\* isinstance(t, SequenceType)
IsSequenceType(t) == t.tag \in {"SequenceType", "ListType"}
\* isinstance(t, ListType)
IsListType(t) == t.tag = "ListType"

(***************************************************************************)
(* Distribution.__init__ and the catalog.                                  *)
(***************************************************************************)
CONTINUOUS == "continuous"
DISCRETE == "discrete"

UpperCase == "ABCDEFGHIJKLMNOPQRSTUVWXYZ"
LowerCase == "abcdefghijklmnopqrstuvwxyz"

RECURSIVE Lower(_)
\* s.lower()
Lower(s) ==
    IF s = "" THEN ""
    ELSE LET c == SubSeq(s, 1, 1)
             up == {i \in 1..Len(UpperCase) : SubSeq(UpperCase, i, i) = c}
         IN  (IF up = {} THEN c
              ELSE LET i == CHOOSE i \in up : TRUE IN SubSeq(LowerCase, i, i))
             \o Lower(Tail(s))

\* Distribution(name, distributions_type, params, has_transform_flag=...,
\* vector_sample=..., transforms=..., foppl_name=...) of class cls; an
\* argument left at None is <<>>
Distribution(cls, name, distributions_type, params, has_transform_flag, vector_sample, transforms, foppl_name) ==
    [cls |-> cls,
     name |-> name,
     foppl_name |-> IF foppl_name = <<>> THEN Lower(name) ELSE foppl_name[1],
     python_name |-> name,
     distribution_type |-> IF distributions_type = <<>> THEN CONTINUOUS
                           ELSE distributions_type[1],
     params |-> IF params = <<>> THEN <<>> ELSE params[1],
     has_transform_flag |-> has_transform_flag,
     vector_sample |-> vector_sample,
     transform_forward |-> IF transforms = <<>> THEN <<>> ELSE <<transforms[1]>>,
     transform_inverse |-> IF transforms = <<>> THEN <<>> ELSE <<transforms[2]>>,
     transform_distribution |->
         IF transforms = <<>> THEN <<>> ELSE <<transforms[3]>>]

distributions ==
    { Distribution("Distribution", "Bernoulli", <<DISCRETE>>, <<<<"probs">>>>,
                   FALSE, FALSE, <<>>, <<>>),
      Distribution("Distribution", "Beta", <<CONTINUOUS>>,
                   <<<<"concentration0", "concentration1">>>>,
                   FALSE, FALSE, <<>>, <<>>),
      Distribution("BinomialDistribution", "Binomial", <<CONTINUOUS>>,
                   <<<<"total_count", "probs">>>>, FALSE, FALSE, <<>>, <<>>),
      Distribution("CategoricalDistribution", "Categorical", <<DISCRETE>>,
                   <<<<"probs">>>>, FALSE, FALSE, <<>>, <<>>),
      Distribution("Distribution", "Cauchy", <<CONTINUOUS>>,
                   <<<<"loc", "gamma">>>>, FALSE, FALSE, <<>>, <<>>),
      Distribution("Distribution", "Dirichlet", <<CONTINUOUS>>,
                   <<<<"concentration0">>>>, FALSE, TRUE, <<>>, <<>>),
      Distribution("Distribution", "Discrete", <<DISCRETE>>, <<>>,
                   FALSE, FALSE, <<>>, <<>>),
      Distribution("Distribution", "Exponential", <<CONTINUOUS>>,
                   <<<<"rate">>>>, TRUE, FALSE, <<>>, <<>>),
      Distribution("Distribution", "Gamma", <<CONTINUOUS>>,
                   <<<<"concentration0", "concentration1">>>>, TRUE, FALSE,
                   <<"bijector.Log", "bijector.Exp", "LogGamma">>, <<>>),
      Distribution("Distribution", "HalfCauchy", <<CONTINUOUS>>,
                   <<<<"loc", "gamma">>>>, FALSE, FALSE, <<>>,
                   <<"half_cauchy">>),
      Distribution("Distribution", "LogGamma", <<CONTINUOUS>>,
                   <<<<"concentration0", "concentration1">>>>, TRUE, FALSE,
                   <<>>, <<"">>),
      Distribution("Distribution", "LogNormal", <<CONTINUOUS>>,
                   <<<<"loc", "scale">>>>, FALSE, FALSE, <<>>,
                   <<"log_normal">>),
      Distribution("Distribution", "Multinomial", <<DISCRETE>>,
                   <<<<"total_count", "probs">>>>, FALSE, FALSE, <<>>, <<>>),
      Distribution("Distribution", "MultivariateNormal", <<CONTINUOUS>>,
                   <<<<"loc", "covariance_matrix">>>>, FALSE, TRUE, <<>>,
                   <<"mvn">>),
      Distribution("Distribution", "Normal", <<CONTINUOUS>>,
                   <<<<"loc", "scale">>>>, FALSE, FALSE, <<>>, <<>>),
      Distribution("Distribution", "Poisson", <<DISCRETE>>, <<<<"rate">>>>,
                   FALSE, FALSE, <<>>, <<>>),
      Distribution("Distribution", "Uniform", <<CONTINUOUS>>,
                   <<<<"low", "high">>>>, FALSE, FALSE, <<>>, <<>>) }

\* { d.foppl_name: d for d in distributions if d.foppl_name != '' }
foppl_distributions_map ==
    {<<d.foppl_name, d>> : d \in {e \in distributions : e.foppl_name # ""}}

\* The values get_distribution_for_name(name) can return: <<dist>> for a
\* dist the loop can meet first (distributions is a set: it is iterated in an
\* order the run chooses), <<>> (None) when no dist matches.
get_distribution_for_name(name) ==
    LET hits == {dist \in distributions :
                    \/ dist.name = name
                    \/ dist.python_name = name
                    \/ dist.foppl_name = name}
    IN  IF hits = {} THEN {<<>>} ELSE {<<dist>> : dist \in hits}

(***************************************************************************)
(* get_sample_type: the default rule and the two overrides.                *)
(***************************************************************************)
\* the default rule with the element type FloatType whatever the kind is
Distribution_get_sample_type_float(self, args) ==
    IF self.vector_sample /\ Len(args) > 0 /\ IsSequenceType(args[1])
    THEN ListType(FloatType, args[1].size)
    ELSE FloatType

Distribution_get_sample_type(self, args) ==
    LET result == IF self.distribution_type = CONTINUOUS THEN FloatType
                  ELSE IntegerType
    IN  IF self.vector_sample /\ Len(args) > 0 /\ IsSequenceType(args[1])
        THEN ListType(result, args[1].size)
        ELSE result

\* result is assigned and never returned
BinomialDistribution_get_sample_type(self, args) ==
    LET assigned == /\ self.vector_sample /\ Len(args) >= 2
                    /\ IsSequenceType(args[2])
        result == ListType(IntegerType, args[2].size)
    IN  IF assigned THEN IntegerType ELSE IntegerType

\* ListType(IntegerType, arg.size): the class is passed, not IntegerType()
CategoricalDistribution_get_sample_type(self, args) ==
    IF Len(args) = 1
    THEN LET a == args[1]
         IN  IF IsListType(a) /\ IsListType(a.item_type)
             THEN ListType(IntegerTypeClass, a.size)
             ELSE IF IsSequenceType(a) THEN IntegerType
             ELSE AnyType
    ELSE AnyType

\* dist.get_sample_type(args), by the class of dist
get_sample_type(self, args) ==
    CASE self.cls = "BinomialDistribution" ->
            BinomialDistribution_get_sample_type(self, args)
      [] self.cls = "CategoricalDistribution" ->
            CategoricalDistribution_get_sample_type(self, args)
      [] OTHER -> Distribution_get_sample_type(self, args)

\* The values get_result_type(name, args) can return.
get_result_type(name, args) ==
    {IF dist # <<>> THEN get_sample_type(dist[1], args) ELSE AnyType :
        dist \in get_distribution_for_name(name)}

(***************************************************************************)
(* _get_support_size.  The arguments are objects of code_objects:          *)
(* CodeValue (a literal), CodeVector (items), CodeDataSymbol (the rows of  *)
(* a data table), or any other expression; each carries its code_type.     *)
(* A Python value is an int or a list of values.                           *)
(***************************************************************************)
PyInt(i) == [t |-> "int", i |-> i]
PyList(items) == [t |-> "list", items |-> items]

CodeValue(value, code_type) ==
    [obj |-> "CodeValue", value |-> value, code_type |-> code_type]
CodeVector(items, code_type) ==
    [obj |-> "CodeVector", items |-> items, code_type |-> code_type]
CodeDataSymbol(data, code_type) ==
    [obj |-> "CodeDataSymbol", data |-> data, code_type |-> code_type]
CodeSymbol(code_type) == [obj |-> "CodeSymbol", code_type |-> code_type]

\* what a call returns: an int, None, or the exception it raises
Size(n) == [tag |-> "int", n |-> n]
NoSize == [tag |-> "None"]
Raises(exc) == [tag |-> "raise", exc |-> exc]

\* max(lens) of a list of ints: ValueError on the empty list
Max(lens) ==
    IF lens = <<>> THEN Raises("ValueError")
    ELSE Size(CHOOSE m \in {lens[i] : i \in 1..Len(lens)} :
                 \A i \in 1..Len(lens) : lens[i] <= m)

\* len(item) of a CodeVector or of a CodeValue holding a list
CodeLen(item) ==
    IF item.obj = "CodeVector" THEN Len(item.items) ELSE Len(item.value.items)

\* the size a sequence type holds: an int, or None when it is unknown
TypeSize(size) == IF size = <<>> THEN NoSize ELSE Size(size[1])

_get_support_size(a) ==
    IF a.obj = "CodeValue" /\ a.value.t = "list"
    THEN LET v == a.value.items
         IN  IF \A i \in 1..Len(v) : v[i].t = "list"
             THEN Max([i \in 1..Len(v) |-> Len(v[i].items)])
             ELSE Size(Len(v))
    ELSE IF a.obj = "CodeVector" /\ Len(a.items) > 0
    THEN LET _is_vector(v) ==
                 \/ v.obj = "CodeVector"
                 \/ (v.obj = "CodeValue" /\ v.value.t = "list")
         IN  IF \A i \in 1..Len(a.items) : _is_vector(a.items[i])
             THEN Max([i \in 1..Len(a.items) |-> CodeLen(a.items[i])])
             ELSE Size(Len(a.items))
    ELSE IF a.obj = "CodeDataSymbol" /\ Len(a.data) > 0
    THEN IF \A i \in 1..Len(a.data) : a.data[i].t = "list"
         THEN Max([i \in 1..Len(a.data) |-> Len(a.data[i].items)])
         ELSE Size(Len(a.data))
    ELSE IF IsSequenceType(a.code_type)
    THEN IF IsSequenceType(a.code_type.item_type)
         THEN TypeSize(a.code_type.item_type.size)
         ELSE TypeSize(a.code_type.size)
    ELSE NoSize

\* dist.get_support_size(args): args[1] for a BinomialDistribution, args[0]
\* for every other class; IndexError when args is too short
get_support_size(self, args) ==
    LET k == IF self.cls = "BinomialDistribution" THEN 2 ELSE 1
    IN  IF Len(args) < k THEN Raises("IndexError")
        ELSE _get_support_size(args[k])

(***************************************************************************)
(* The program as a state machine.                                         *)
(*   ast       the tree the front end built, as it is now                  *)
(*   arg       the tree as it was when dump() was last called              *)
(*   rendered  the strings the calls of dump() returned, in order          *)
(*   res       the last query of the catalog, with its answer              *)
(***************************************************************************)
Idle == [op |-> "idle"]

Init ==
    /\ ast \in Trees
    /\ arg = NoneNode
    /\ rendered = <<>>
    /\ res = Idle

\* one call of dump(ast)
Render ==
    /\ Len(rendered) < MaxRenders
    /\ LET r == dump(ast)
       IN  /\ ast' = r.node
           /\ arg' = ast
           /\ rendered' = Append(rendered, r.text)
    /\ UNCHANGED res

Next == Render

Spec == Init /\ [][Next]_vars

(***************************************************************************)
(* The catalog and the shape inference as a state machine: a caller asks   *)
(* one query at a time and takes the answer.                               *)
(***************************************************************************)
\* all sequences over S of length 0..n
RECURSIVE SeqsUpTo(_, _)
SeqsUpTo(S, n) ==
    IF n = 0 THEN {<<>>}
    ELSE LET shorter == SeqsUpTo(S, n - 1)
         IN  shorter \cup {Append(q, x) : q \in shorter, x \in S}

\* the names a caller looks up: every name of the catalog, and others
LookupNames ==
    {d.name : d \in distributions} \cup {d.foppl_name : d \in distributions}
    \cup {"", "Gaussian", "NORMAL", "Half_Cauchy", "loggamma"}

\* descriptors built outside the catalog, one per class, kind and flag
OtherDescriptors ==
    {Distribution(cls, "Other", <<kind>>, <<>>, FALSE, flag, <<>>, <<>>) :
        cls \in {"Distribution", "BinomialDistribution",
                 "CategoricalDistribution"},
        kind \in {CONTINUOUS, DISCRETE}, flag \in BOOLEAN}

Descriptors == distributions \cup OtherDescriptors

Sizes == {<<>>} \cup {<<n>> : n \in 1..MaxSize}

ArgTypes ==
    {AnyType, IntegerType, FloatType}
    \cup {SequenceType(FloatType, z) : z \in Sizes}
    \cup {ListType(IntegerType, z) : z \in Sizes}
    \cup {SequenceType(SequenceType(FloatType, <<1>>), z) : z \in Sizes}
    \cup {ListType(ListType(FloatType, <<1>>), z) : z \in Sizes}

TypeLists == SeqsUpTo(ArgTypes, MaxArgs)

Flat(n) == PyList([i \in 1..n |-> PyInt(1)])
PyLists == {PyList(l) : l \in SeqsUpTo({PyInt(1)} \cup {Flat(n) : n \in 0..MaxLen}, MaxLen)}

VectorItems ==
    { CodeValue(PyInt(1), IntegerType),
      CodeValue(Flat(0), AnyType),
      CodeValue(Flat(MaxLen), AnyType),
      CodeVector(<<>>, AnyType),
      CodeVector(<<CodeSymbol(FloatType)>>, AnyType),
      CodeSymbol(ListType(FloatType, <<MaxSize>>)) }

CodeObjects ==
    {CodeValue(v, AnyType) : v \in PyLists}
    \cup {CodeValue(PyInt(1), IntegerType)}
    \cup {CodeVector(items, t) : items \in SeqsUpTo(VectorItems, 2),
                                 t \in {AnyType, ListType(AnyType, <<1>>)}}
    \cup {CodeDataSymbol(v.items, t) : v \in PyLists,
                                       t \in {AnyType, ListType(AnyType, <<1>>)}}
    \cup {CodeSymbol(t) : t \in ArgTypes}

\* argument lists with the object o at one place
ObjectLists ==
    {<<>>} \cup
    {[i \in 1..n |-> IF i = k THEN o ELSE CodeValue(PyInt(1), IntegerType)] :
        n \in 1..MaxArgs, k \in 1..MaxArgs, o \in CodeObjects}

InitCatalog ==
    /\ ast = NoneNode
    /\ arg = NoneNode
    /\ rendered = <<>>
    /\ res = Idle

\* get_distribution_for_name(name)
Lookup ==
    /\ res = Idle
    /\ \E name \in LookupNames :
         \E found \in get_distribution_for_name(name) :
            res' = [op |-> "lookup", name |-> name, found |-> found]
    /\ UNCHANGED <<ast, arg, rendered>>

\* dist.get_sample_type(args)
SampleType ==
    /\ res = Idle
    /\ \E dist \in Descriptors, args \in TypeLists :
         res' = [op |-> "sample_type", dist |-> dist, args |-> args,
                 type |-> get_sample_type(dist, args)]
    /\ UNCHANGED <<ast, arg, rendered>>

\* get_result_type(name, args)
ResultType ==
    /\ res = Idle
    /\ \E name \in {"normal", "Binomial", "categorical", "mvn", "", "Gaussian"},
          args \in TypeLists :
         \E type \in get_result_type(name, args) :
            res' = [op |-> "result_type", name |-> name, args |-> args,
                    type |-> type]
    /\ UNCHANGED <<ast, arg, rendered>>

\* dist.get_support_size(args)
SupportSize ==
    /\ res = Idle
    /\ \E dist \in {d \in distributions :
                      d.name \in {"Normal", "Binomial", "Categorical"}},
          args \in ObjectLists :
         res' = [op |-> "support_size", dist |-> dist, objects |-> args,
                 size |-> get_support_size(dist, args)]
    /\ UNCHANGED <<ast, arg, rendered>>

\* the caller takes the answer
Return ==
    /\ res # Idle
    /\ res' = Idle
    /\ UNCHANGED <<ast, arg, rendered>>

NextCatalog == Lookup \/ SampleType \/ ResultType \/ SupportSize \/ Return

SpecCatalog == InitCatalog /\ [][NextCatalog]_vars

(***************************************************************************)
(* The renderer's properties (specification Spec).                         *)
(***************************************************************************)
\* the string the last call of dump() returned
Out == rendered[Len(rendered)]

\* s.startswith(prefix)
StartsWith(s, prefix) ==
    Len(s) >= Len(prefix) /\ SubSeq(s, 1, Len(prefix)) = prefix

\* C1: a Slice renders as exactly one form chosen by the bounds present:
\* without an upper bound "(rest SEQ)" when the lower bound is the literal 1
\* and "(drop START SEQ)" for any other lower bound; with only an upper
\* bound the take form; with both bounds the subvec form.
C1_SliceForms ==
    (rendered # <<>> /\ arg.kind = "Slice") =>
        LET SEQ == dump(arg.base).text
            START == dump(arg.start).text
        IN  IF arg.stop.kind = "None"
            THEN IF arg.start.kind = "Value" /\ arg.start.value = 1
                 THEN Out = "(rest " \o SEQ \o ")"
                 ELSE arg.start.kind # "None"
                        => Out = "(drop " \o START \o " " \o SEQ \o ")"
            ELSE IF arg.start.kind = "None"
                 THEN StartsWith(Out, "(take ")
                 ELSE StartsWith(Out, "(subvec ")

\* C2: rendering has no side effect and is repeatable: after any number of
\* calls of dump() on a tree every field of every node is what it was before
\* the call (a Function's parameter list included), and every call returned
\* the string the first call returned.
C2_RenderIsPure ==
    rendered # <<>> =>
        /\ ast = arg
        /\ \A i \in 1..Len(rendered) : rendered[i] = rendered[1]

\* C8: a Compare with one operator renders as "(OP a b)"; with two operators
\* and a third term as "(OP a b c)" when the operators are the same and as
\* "(and (OP1 a b) (OP2 b c))" when they differ, b appearing in both pairs.
C8_CompareForms ==
    (rendered # <<>> /\ arg.kind = "Compare") =>
        LET a == dump(arg.left).text
            b == dump(arg.right).text
            c == dump(arg.second_right).text
        IN  IF arg.second_right.kind = "None"
            THEN Out = "(" \o arg.op \o " " \o a \o " " \o b \o ")"
            ELSE IF arg.second_op[1] = arg.op
            THEN Out = "(" \o arg.op \o " " \o a \o " " \o b \o " " \o c \o ")"
            ELSE Out = "(and (" \o arg.op \o " " \o a \o " " \o b \o ") ("
                         \o arg.second_op[1] \o " " \o b \o " " \o c \o "))"

\* C8, its case reached: a Compare of two different operators around a
\* shared middle term was rendered.
C8_Witness ==
    /\ rendered # <<>>
    /\ arg.kind = "Compare"
    /\ arg.second_right.kind # "None"
    /\ arg.second_op[1] # arg.op
    /\ arg.right.kind = "Value"
    /\ Out = "(and (< xs 10) (<= 10 n))"

\* C10: the text of a For and of a ListFor contains the text of its three
\* children: the target, the source, and the body (or element expression)
\* re-indented by two spaces.
C10_LoopChildrenRendered ==
    (rendered # <<>> /\ arg.kind \in {"For", "ListFor"}) =>
        LET body == IF arg.kind = "For" THEN arg.body ELSE arg.expr
        IN  /\ Contains(Out, visit_name(arg.target))
            /\ Contains(Out, dump(arg.source).text)
            /\ Contains(Out, visit_indent(body, 2).text)

(***************************************************************************)
(* The catalog's and the inference's properties (specification             *)
(* SpecCatalog).                                                           *)
(***************************************************************************)
\* C3: for every descriptor of the catalog that is CONTINUOUS and has
\* vector_sample false, get_sample_type returns the scalar FloatType for
\* every argument list.
C3_ContinuousScalarIsFloat ==
    ( /\ res.op = "sample_type"
      /\ res.dist \in distributions
      /\ res.dist.distribution_type = CONTINUOUS
      /\ ~res.dist.vector_sample ) => res.type = FloatType

\* C4: lookup(name) returns the one descriptor whose canonical name, runtime
\* name or non-empty source alias is name, and None when there is none; the
\* empty string names no descriptor.
C4_LookupByAnyName ==
    res.op = "lookup" =>
        LET named == {d \in distributions :
                        \/ d.name = res.name
                        \/ d.python_name = res.name
                        \/ (d.foppl_name # "" /\ d.foppl_name = res.name)}
        IN  IF named = {} THEN res.found = <<>>
            ELSE /\ Cardinality(named) = 1
                 /\ res.found # <<>>
                 /\ res.found[1] \in named

\* C5: for every probed argument that is a literal holding a list, the empty
\* list and the mixed lists included, support_size returns a size: the
\* largest element length when every element is a list, the outer length
\* otherwise.
C5_LiteralListHasSize ==
    LET k == IF res.dist.cls = "BinomialDistribution" THEN 2 ELSE 1
    IN  ( /\ res.op = "support_size"
          /\ Len(res.objects) >= k
          /\ res.objects[k].obj = "CodeValue"
          /\ res.objects[k].value.t = "list" ) =>
            LET v == res.objects[k].value.items
                nested == \A i \in 1..Len(v) : v[i].t = "list"
            IN  /\ res.size.tag = "int"
                /\ (nested /\ v # <<>>) =>
                     /\ \A i \in 1..Len(v) : Len(v[i].items) <= res.size.n
                     /\ \E i \in 1..Len(v) : Len(v[i].items) = res.size.n
                /\ ~nested => res.size.n = Len(v)

\* C6: the default rule, for a descriptor with vector_sample true: when the
\* first argument is a SequenceType of size N the sample type is a sequence
\* of size N of FloatType (CONTINUOUS) or IntegerType (DISCRETE); when the
\* first argument is no SequenceType, or there is no argument, it is that
\* scalar type.
C6_VectorSampleDefault ==
    ( /\ res.op = "sample_type"
      /\ res.dist.cls = "Distribution"
      /\ res.dist.vector_sample ) =>
        LET scalar == IF res.dist.distribution_type = CONTINUOUS
                      THEN FloatType ELSE IntegerType
        IN  IF Len(res.args) > 0 /\ IsSequenceType(res.args[1])
            THEN /\ IsSequenceType(res.type)
                 /\ res.type.item_type = scalar
                 /\ res.type.size = res.args[1].size
            ELSE res.type = scalar

\* C6, its case reached: a DISCRETE vector-sample descriptor was asked with a
\* first argument that is a sequence of the largest size, and answered with
\* a sequence.
C6_Witness ==
    /\ res.op = "sample_type"
    /\ res.dist.cls = "Distribution"
    /\ res.dist.vector_sample
    /\ res.dist.distribution_type = DISCRETE
    /\ Len(res.args) = MaxArgs
    /\ IsSequenceType(res.args[1])
    /\ res.args[1].size = <<MaxSize>>
    /\ res.type = ListType(IntegerType, <<MaxSize>>)

\* C7: the categorical override, given exactly one argument, returns a
\* sequence of IntegerType of size N when the argument is a sequence of
\* sequences of outer size N, the scalar IntegerType when it is any other
\* SequenceType, and AnyType otherwise; given any other number of arguments
\* it returns AnyType.
C7_CategoricalOverride ==
    (res.op = "sample_type" /\ res.dist.cls = "CategoricalDistribution") =>
        IF Len(res.args) = 1
        THEN LET a == res.args[1]
             IN  IF IsSequenceType(a) /\ IsSequenceType(a.item_type)
                 THEN /\ IsSequenceType(res.type)
                      /\ res.type.item_type = IntegerType
                      /\ res.type.size = a.size
                 ELSE IF IsSequenceType(a) THEN res.type = IntegerType
                 ELSE res.type = AnyType
        ELSE res.type = AnyType

\* C9: the count-like override, for a descriptor with vector_sample true
\* whose second argument is a SequenceType of size N, returns a sequence of
\* IntegerType of size N; in every other case it returns the scalar
\* IntegerType, whatever the descriptor's kind is.
C9_CountLikeOverride ==
    (res.op = "sample_type" /\ res.dist.cls = "BinomialDistribution") =>
        IF /\ res.dist.vector_sample
           /\ Len(res.args) >= 2
           /\ IsSequenceType(res.args[2])
        THEN /\ IsSequenceType(res.type)
             /\ res.type.item_type = IntegerType
             /\ res.type.size = res.args[2].size
        ELSE res.type = IntegerType
====
